---- MODULE Spec2Model ----
(***************************************************************************)
(* A model of Presenter (src/psychopy_util.py): the wait primitive         *)
(* draw_stimuli_for_duration, the response collector                       *)
(* draw_stimuli_for_response, the selection trial select_from_stimuli, the *)
(* Likert trial likert_scale and the pages of show_instructions, together  *)
(* with the event source (psychopy.event.waitKeys), the clock              *)
(* (psychopy.core) and the window they drive; of show_form_dialog; and of  *)
(* DumbTextInput (src/dumb_text_input.py).                                 *)
(*                                                                         *)
(* One behaviour is one top-level call on a constructed Presenter, one     *)
(* call of show_form_dialog, or the life of one DumbTextInput.  Time       *)
(* is counted in whole seconds.  Opacities and positions are counted in    *)
(* hundredths, in exact arithmetic.                                        *)
(***************************************************************************)
EXTENDS Integers, Sequences, FiniteSets, TLC

\* ------------------------------------------------------------------ bounds
\* The most key events one waitKeys result hands over.
MaxBatch == 2
\* The largest number of seconds, or of trigger pulses, a call is given.
MaxCount == 2
\* The most response events the event source produces inside one trigger window.
MaxResponses == 2

\* --------------------------------------------------------- program constants
\* self.SELECTED_STIM_OPACITY_CHANGE = 0.5, in hundredths.
SELECTED_STIM_OPACITY_CHANGE == 50

\* ------------------------------------------------------------------ values
\* Python values of the duration / max_wait parameters: None, float('inf'),
\* an int and a finite float.  isinstance(x, int) is IsInt(x).
NoneV == [t |-> "none", v |-> 0]
InfV == [t |-> "inf", v |-> 0]
IntV(n) == [t |-> "int", v |-> n]
FloatV(n) == [t |-> "float", v |-> n]
IsInt(x) == x.t = "int"
IsFinite(x) == x.t \in {"int", "float"}

\* The trigger of a Presenter built without one (trigger=None).
NoTrigger == "<None>"
\* The scanner's trigger character.
TriggerKey == "t"
\* The keys of the keyboard; TriggerKey is the key the scanner pulse presses.
PhysicalKeys == {"f", "j", "x", TriggerKey}

\* A timestamped key event is <<key, seconds>>; a call that returns None
\* returns NoneR.
NoneR == <<"None", 0>>

\* An absent entry of a stimulus list (a None the drawing loop skips).
NoStim == "None"
\* The drawable objects: two options, a highlight overlay, a no-response message.
StimIds == {"A", "B", "H", "N"}

\* The clock of a wait reads 0..MaxClock seconds: by then every finite wait
\* has run out.
MaxClock == MaxCount

Range(s) == {s[n] : n \in 1..Len(s)}
Min(a, b) == IF a < b THEN a ELSE b

\* Counters of trigger pulses are kept exactly up to CountCap and held there:
\* CountCap is above every pulse count a call is given, so the tests the code
\* makes on them (i != duration) read the same for every value from CountCap on.
CountCap == MaxCount + MaxBatch
Sat(n) == Min(n, CountCap)

\* ------------------------------------------------------------ event source
\* A variant of Filter that hands over every event, listed or not.
Filter_All(raw, keyList, now) == [n \in 1..Len(raw) |-> <<raw[n], now>>]

\* event.getKeys(keyList=...): the events whose key is in keyList, in order,
\* each stamped with the reading of the clock.
Filter(raw, keyList, now) ==
    LET hits == SelectSeq(raw, LAMBDA k : k \in keyList)
    IN  [n \in 1..Len(hits) |-> <<hits[n], now>>]

\* The events of a result that are trigger pulses / that are not.
Triggers(results, trig) == SelectSeq(results, LAMBDA e : e[1] = trig)
NonTriggers(results, trig) == SelectSeq(results, LAMBDA e : e[1] # trig)

\* The trigger pulses among the raw key events of one poll.
Pulses(raw, trig) == Len(SelectSeq(raw, LAMBDA k : k = trig))

\* Whether a poll holds a key event.getKeys(keyList=...) does not hand over.
Unlisted(raw, keyList) == \E n \in 1..Len(raw) : raw[n] \notin keyList

VARIABLES
    trigger,     \* Presenter.trigger
    stim,        \* the drawable objects: id -> [pos, opacity]
    pc,          \* where the call stands
    error,       \* the exception that ended the call, "" if none
    dur,         \* the frame of draw_stimuli_for_duration
    resp,        \* the frame of draw_stimuli_for_response
    sel,         \* the frame of select_from_stimuli
    clock,       \* the reading of the core.Clock / core.wait of the current wait
    frames,      \* the frames flipped to the window during the call, in order
    trigSeen,    \* trigger events the event source handed to the current wait
    respSeen,    \* response events it handed to the current trigger window
    firstQual,   \* the first response event of the current collection window
    ignored,     \* whether a key outside the keyList was pressed during a wait
    warnings,    \* warnings logged during the call
    likert,      \* the frame of likert_scale
    instr,       \* the frame of show_instructions
    dlg,         \* the frame of show_form_dialog and the caller's dictionary
    text         \* the DumbTextInput

vars == <<trigger, stim, pc, error, dur, resp, sel, clock, frames, trigSeen,
          respSeen, firstQual, ignored, warnings, likert, instr, dlg, text>>

\* -------------------------------------------------------------- the window
\* stimuli.draw() for one stimulus or each stim that is not None, then
\* window.flip(): the frame is what was drawn, as it looked.
Drawn(stimuli) ==
    LET shown == SelectSeq(stimuli, LAMBDA s : s # NoStim)
    IN  [n \in 1..Len(shown) |->
            [id |-> shown[n], pos |-> stim[shown[n]].pos,
             opacity |-> stim[shown[n]].opacity]]

\* A variant of WindowFlip that presents the frame twice.
WindowFlip_Twice(shown) == Append(Append(frames, shown), shown)

\* window.flip(): one more frame on the screen.
WindowFlip(shown) == Append(frames, shown)

\* The frame of a call of draw_stimuli_for_duration(stimuli, duration,
\* wait_trigger) that returns to ret; entry_frames is the number of frames
\* flipped before the call.
DurCall(stimuli, duration, wait_trigger, ret) ==
    [stimuli |-> stimuli, duration |-> duration, wait_trigger |-> wait_trigger,
     k |-> 0, ret |-> ret, entry_frames |-> Len(frames)]

NoDur == DurCall(<<>>, NoneV, FALSE, "idle")

\* A variant of NormMaxWait that takes None for no wait at all.
NormMaxWait_Zero(max_wait) == IF max_wait = NoneV THEN IntV(0) ELSE max_wait

\* if max_wait is None: max_wait = float('inf')
NormMaxWait(max_wait) == IF max_wait = NoneV THEN InfV ELSE max_wait

\* The frame of a call of draw_stimuli_for_response; max_wait_arg is max_wait
\* as the caller gave it, and empty_seen tells whether waitKeys has handed
\* the call an empty list.
RespCall(stimuli, response_keys, max_wait, wait_trigger, ret) ==
    [stimuli |-> stimuli, response_keys |-> response_keys,
     max_wait_arg |-> max_wait,
     max_wait |-> NormMaxWait(max_wait), wait_trigger |-> wait_trigger,
     duration |-> 0, i |-> 0, responses |-> <<>>, result |-> NoneR,
     ret |-> ret, empty_seen |-> FALSE]

NoResp == RespCall(<<>>, {}, InfV, FALSE, "idle")

\* The return value of select_from_stimuli: None, or the dictionary
\* {'selection': selection, 'rt': rt}.
NoneD == [none |-> TRUE, selection |-> 0, rt |-> 0]
Dict(selection, rt) == [none |-> FALSE, selection |-> selection, rt |-> rt]

\* response_keys as the caller writes it: a dictionary (keys[n] : idx[n]) or
\* a list of keys.
DictForm(keys, idx) == [kind |-> "dict", keys |-> keys, idx |-> idx]
ListForm(keys) == [kind |-> "list", keys |-> keys, idx |-> <<>>]

\* A variant of ToKeyMap that gives every key of a list the index 0.
ToKeyMap_AllZero(form) ==
    IF form.kind = "dict"
    THEN [k \in Range(form.keys) |->
            form.idx[CHOOSE n \in 1..Len(form.keys) : form.keys[n] = k]]
    ELSE [k \in Range(form.keys) |-> 0]

\* A variant of ToKeyMap that numbers the keys of a list from one.
ToKeyMap_FromOne(form) ==
    IF form.kind = "dict"
    THEN [k \in Range(form.keys) |->
            form.idx[CHOOSE n \in 1..Len(form.keys) : form.keys[n] = k]]
    ELSE [k \in Range(form.keys) |->
            CHOOSE n \in 1..Len(form.keys) : form.keys[n] = k]

\* if type(response_keys) is not dict:
\*     response_keys = {key: i for i, key in enumerate(response_keys)}
ToKeyMap(form) ==
    IF form.kind = "dict"
    THEN [k \in Range(form.keys) |->
            form.idx[CHOOSE n \in 1..Len(form.keys) : form.keys[n] = k]]
    ELSE [k \in Range(form.keys) |->
            (CHOOSE n \in 1..Len(form.keys) :
                /\ form.keys[n] = k
                /\ \A m \in 1..Len(form.keys) : form.keys[m] = k => m <= n) - 1]

\* The frame of a call of select_from_stimuli.  The arguments that only the
\* branch after the collection reads (highlight, post_selection_time,
\* post_select_wait_trigger; no_response_stim, no_resp_feedback_time,
\* feedback_wait_trigger) are drawn where that branch first reads them: no
\* line before it reads them, so what the call does is the same.
SelCall(stimuli, form, max_wait, resp_wait_trigger) ==
    [stimuli |-> stimuli, response_keys |-> ToKeyMap(form), form |-> form,
     max_wait |-> max_wait, resp_wait_trigger |-> resp_wait_trigger,
     post_selection_time |-> NoneV, highlight |-> NoStim,
     post_select_wait_trigger |-> FALSE,
     no_response_stim |-> NoStim, no_resp_feedback_time |-> NoneV,
     feedback_wait_trigger |-> FALSE,
     selection |-> 0, result |-> NoneD,
     entry_stimuli |-> stimuli, entry_stim |-> stim]

NoSel == SelCall(<<>>, ListForm(<<>>), InfV, FALSE)

\* ------------------------------------------------------------------- inputs
StimLists == {<<"A">>, <<"A", NoStim, "B">>}
Durations == {NoneV, InfV, FloatV(1)} \cup {IntV(n) : n \in 0..MaxCount}
KeySets == {{"f"}, {"f", "j"}}
\* The opacities the stimuli are built with, in hundredths: option B is dim,
\* the other objects are opaque.
FullOpacity == 100
DimOpacity == 30
\* The options of a selection trial.
Options == <<"A", "B">>
\* The response_keys of a selection trial: dictionaries on f and j, one with
\* a negative index and an index past the last option, and lists of two and
\* of three keys.
KeyForms ==
    {DictForm(<<"f", "j">>, ix) : ix \in {<<0, 1>>, <<1, 0>>, <<0 - 1, 2>>}}
    \cup {ListForm(<<"j", "f">>), ListForm(<<"f", "j", "x">>)}
SelWaits == {NoneV, IntV(1), IntV(MaxCount)}
\* post_selection_time with post_select_wait_trigger: the waits above in
\* seconds and in pulses, and a float given with the pulse policy.
PostSelections == (SelWaits \X BOOLEAN) \cup {<<FloatV(1), TRUE>>}

\* ------------------------------------------------------------ likert_scale
\* An optional list argument: None, or a list.
NoneL == [given |-> FALSE, v |-> <<>>]
ListV(s) == [given |-> TRUE, v |-> s]

\* str(n) of an integer n >= 0: its decimal digits.
Digits == <<"0", "1", "2", "3", "4", "5", "6", "7", "8", "9">>
RECURSIVE Str(_)
Str(n) == IF n < 10 THEN Digits[n + 1] ELSE Str(n \div 10) \o Digits[(n % 10) + 1]

\* range(start, stop, step) for step > 0, as a list.
PyRange(start, stop, step) ==
    LET count == IF stop <= start THEN 0 ELSE (stop - start + step - 1) \div step
    IN  [n \in 1..count |-> start + (n - 1) * step]

\* The layout constants of Presenter.__init__, in hundredths of a normalised
\* unit: LIKERT_SCALE_OPTION_INTERVAL = 0.2, LIKERT_SCALE_OPTION_POS_Y = -0.2,
\* LIKERT_SCALE_LABEL_POS_Y = -0.35, LIKERT_SCALE_INSTR_POS = (0, 0.8).
LIKERT_SCALE_OPTION_INTERVAL == 20
LIKERT_SCALE_OPTION_POS_Y == 0 - 20
LIKERT_SCALE_LABEL_POS_Y == 0 - 35
LIKERT_SCALE_INSTR_POS == <<0, 80>>

\* visual.TextStim(self.window, text=text, pos=(x, y)): a new drawable object.
TextStim(txt, x, y) == [pos |-> x, opacity |-> FullOpacity, y |-> y, text |-> txt]

\* A variant of LikertError that does not check the length of option_labels.
LikertError_NoLabels(num_options, option_texts, option_labels, side_labels) ==
    IF num_options < 2 \/ num_options > 10 THEN "ValueError"
    ELSE IF option_texts.given /\ Len(option_texts.v) # num_options THEN "ValueError"
    ELSE IF side_labels.given /\ Len(side_labels.v) # 2 THEN "ValueError"
    ELSE ""

\* The four checks at the head of likert_scale; "" when all pass.
LikertError(num_options, option_texts, option_labels, side_labels) ==
    IF num_options < 2 \/ num_options > 10 THEN "ValueError"
    ELSE IF option_texts.given /\ Len(option_texts.v) # num_options THEN "ValueError"
    ELSE IF option_labels.given /\ Len(option_labels.v) # num_options THEN "ValueError"
    ELSE IF side_labels.given /\ Len(side_labels.v) # 2 THEN "ValueError"
    ELSE ""

\* The default option texts: "0".."9" for ten options, else "1".."N".
DefaultOptionTexts(num_options) ==
    IF num_options = 10
    THEN [i \in 1..num_options |-> Str(i - 1)]
    ELSE [i \in 1..num_options |-> Str(i)]

\* option_labels = [side_labels[0]] + [''] * (num_options - 2) + [side_labels[1]]
SideOptionLabels(num_options, side_labels) ==
    <<side_labels[1]>> \o [i \in 1..(num_options - 2) |-> ""] \o <<side_labels[2]>>

\* scale_width = (len(option_texts) - 1) * LIKERT_SCALE_OPTION_INTERVAL
ScaleWidth(len) == (len - 1) * LIKERT_SCALE_OPTION_INTERVAL

\* A variant of PosX whose range stops at the last position instead of past it.
PosX_StopShort(len) ==
    IF ScaleWidth(len) > 200
    THEN PyRange(0 - 100, 100, 200 \div (len - 1))
    ELSE PyRange(0 - (ScaleWidth(len) \div 2), ScaleWidth(len) \div 2,
                 LIKERT_SCALE_OPTION_INTERVAL)

\* pos_x, in hundredths: int(scale_width * 50) is half the width in
\* hundredths, int(LIKERT_SCALE_OPTION_INTERVAL * 100) the interval.
PosX(len) ==
    IF ScaleWidth(len) > 200
    THEN PyRange(0 - 100, 100, 200 \div (len - 1))
    ELSE PyRange(0 - (ScaleWidth(len) \div 2), (ScaleWidth(len) \div 2) + 2,
                 LIKERT_SCALE_OPTION_INTERVAL)

\* A variant of DefaultResponseKeys that leaves the tenth key as str(10).
DefaultResponseKeys_NoZero(num_options) == [i \in 1..num_options |-> Str(i)]

\* response_keys = [str(i + 1) for i in range(num_options)], with
\* response_keys[9] = '0' for ten options.
DefaultResponseKeys(num_options) ==
    LET keys == [i \in 1..num_options |-> Str(i)]
    IN  IF num_options = 10 THEN [keys EXCEPT ![10] = "0"] ELSE keys

\* The stimuli likert_scale constructs, in list order, each with its name in
\* the model: the instruction, one TextStim per option text at pos_x[i], and
\* one per option label if there are labels.
LikertStimuli(option_texts, option_labels, pos_x) ==
    <<[id |-> "instruction",
       obj |-> TextStim("instruction", LIKERT_SCALE_INSTR_POS[1],
                        LIKERT_SCALE_INSTR_POS[2])]>>
    \o [i \in 1..Len(option_texts) |->
          [id |-> "option" \o Str(i),
           obj |-> TextStim(option_texts[i], pos_x[i], LIKERT_SCALE_OPTION_POS_Y)]]
    \o (IF option_labels.given
        THEN [i \in 1..Len(option_texts) |->
                [id |-> "label" \o Str(i),
                 obj |-> TextStim(option_labels.v[i], pos_x[i],
                                  LIKERT_SCALE_LABEL_POS_Y)]]
        ELSE <<>>)

\* The frame of a call of likert_scale: the arguments, and the locals as they
\* stand after the construction (empty when a check has raised).
LikertCall(num_options, option_texts, option_labels, side_labels, response_keys, wait_trigger) ==
    LET err == LikertError(num_options, option_texts, option_labels, side_labels)
        texts == IF option_texts.given THEN option_texts.v
                 ELSE DefaultOptionTexts(num_options)
        labels == IF side_labels.given
                  THEN ListV(SideOptionLabels(num_options, side_labels.v))
                  ELSE option_labels
        pos_x == PosX(Len(texts))
        short == Len(pos_x) < Len(texts)
        keys == IF response_keys.given THEN response_keys.v
                ELSE DefaultResponseKeys(num_options)
        built == err = "" /\ ~short
    IN  [num_options |-> num_options, wait_trigger |-> wait_trigger,
         args |-> [option_texts |-> option_texts, option_labels |-> option_labels,
                   side_labels |-> side_labels, response_keys |-> response_keys],
         error |-> IF err # "" THEN err ELSE IF short THEN "IndexError" ELSE "",
         option_texts |-> IF err = "" THEN texts ELSE <<>>,
         option_labels |-> IF err = "" THEN labels ELSE NoneL,
         pos_x |-> IF err = "" THEN pos_x ELSE <<>>,
         stimuli |-> IF built THEN LikertStimuli(texts, labels, pos_x) ELSE <<>>,
         response_keys |-> IF built THEN keys ELSE <<>>,
         result |-> NoneR, called |-> TRUE]

NoLikert ==
    [LikertCall(0, NoneL, NoneL, NoneL, NoneL, FALSE) EXCEPT
        !.error = "", !.called = FALSE]

\* The arguments of the likert trials: every option count from 1 to 11, with
\* option_texts, option_labels and side_labels omitted, of the right length
\* or too long; response_keys is omitted, or given with the option labels.
LikertCounts == 1..11
Texts(prefix, n) == [i \in 1..n |-> prefix \o Str(i)]
LikertArgs(num_options) ==
    {<<NoneL, NoneL, NoneL, NoneL>>,
     <<ListV(Texts("o", num_options)), NoneL, NoneL, NoneL>>,
     <<ListV(Texts("o", num_options + 1)), NoneL, NoneL, NoneL>>,
     <<NoneL, ListV(Texts("l", num_options)), NoneL, ListV(<<"x", "0">>)>>,
     <<NoneL, ListV(Texts("l", num_options + 1)), NoneL, NoneL>>,
     <<NoneL, NoneL, ListV(<<"lo", "hi">>), NoneL>>,
     <<NoneL, NoneL, ListV(<<"lo", "mid", "hi">>), NoneL>>}
\* The keys pressed during a likert trial.
LikertKeys == {"1", "0", "x", TriggerKey}

\* -------------------------------------------------------- show_instructions
\* The most pages a call of show_instructions is given.
MaxPages == 2

\* instructions as the caller writes it: one string, or a list of strings.
OneString(page) == [kind |-> "str", v |-> <<page>>]
PageList(pages) == [kind |-> "list", v |-> pages]

\* A variant of Pages that leaves out the last page.
Pages_DropLast(instructions) == SubSeq(instructions.v, 1, Len(instructions.v) - 1)

\* if type(instructions) is str: instructions = [instructions]
Pages(instructions) == instructions.v

\* The frame of a call of show_instructions; i counts the turns of the for
\* loop that have started.
InstrCall(instructions, key_to_continue, next_page_text, duration, wait_trigger) ==
    [instructions |-> Pages(instructions), key_to_continue |-> key_to_continue,
     next_page_stim |-> IF next_page_text = NoStim THEN NoStim ELSE "next_page",
     duration |-> duration, wait_trigger |-> wait_trigger, i |-> 0,
     arg |-> instructions, called |-> TRUE]

NoInstr == [InstrCall(PageList(<<>>), "", NoStim, NoneV, FALSE) EXCEPT !.called = FALSE]

\* The instructions of the calls: one string, and lists of 0..MaxPages pages.
InstrPages == {OneString("page1")} \cup {PageList(Texts("page", k)) : k \in 0..MaxPages}
\* The keys pressed while instructions are shown.
InstrKeys == {"space", "x", TriggerKey}

\* --------------------------------------------------------- show_form_dialog
\* The most attempts validation_func rejects in one call.
MaxAttempts == 2

\* The values a user types into a field of the form.
FieldValues == {"", "0", "7"}
\* The dictionaries of the form: one entry per item name.
Items == [ID : FieldValues, Age : FieldValues]
EmptyItems == [ID |-> "", Age |-> ""]

\* validation(items) of the example experiment: no field is empty and Age is
\* a positive integer.
Validation(items) == items.ID # "" /\ items.Age # "" /\ items.Age = "7"

\* The frame of a call of show_form_dialog(items, validation_func,
\* reset_after_error) and the two dictionary objects it can reach: caller is
\* the dictionary the caller passed; the local name items refers to it while
\* aliased, and to the dictionary local once it has been rebound.
FormCall(items, validate, reset_after_error) ==
    [caller |-> items, aliased |-> TRUE, local |-> items,
     original_items |-> items, validate |-> validate,
     reset_after_error |-> reset_after_error,
     rejected |-> 0, entered |-> items, called |-> TRUE]

NoForm == [FormCall(EmptyItems, FALSE, FALSE) EXCEPT !.called = FALSE]

\* ------------------------------------------------------------ DumbTextInput
\* The largest finite max_length a DumbTextInput is built with.
MaxLength == 2
\* The most characters typed into a DumbTextInput without a finite max_length.
MaxText == 3

\* self._key_mapping for the keys of the model: (unshifted, shifted) for a
\* tuple entry, the one character for a string entry.
KeyMapping ==
    ("minus" :> [tuple |-> TRUE, v |-> <<"-", "_">>])
    @@ ("return" :> [tuple |-> FALSE, v |-> <<"\n">>])
    @@ ("1" :> [tuple |-> FALSE, v |-> <<"!">>])

\* The key names of one character (len(key_name) == 1), those of them that
\* are letters (key_name.isalpha()), and key_name.upper().
SingleCharKeys == {"a", "1"}
AlphaKeys == {"a"}
Upper == ("a" :> "A")

\* The character a key enters, as update computes it; known is false for a
\* key name with no character (char stays '').
KeyChar(key_name, shift, capslock) ==
    IF key_name \in SingleCharKeys
    THEN IF key_name \in AlphaKeys
         THEN [known |-> TRUE,
               char |-> IF shift \/ capslock THEN Upper[key_name] ELSE key_name]
         ELSE [known |-> TRUE,
               char |-> IF shift THEN KeyMapping[key_name].v[1] ELSE key_name]
    ELSE IF key_name \in DOMAIN KeyMapping
         THEN [known |-> TRUE,
               char |-> IF KeyMapping[key_name].tuple
                        THEN (IF shift THEN KeyMapping[key_name].v[2]
                              ELSE KeyMapping[key_name].v[1])
                        ELSE KeyMapping[key_name].v[1]]
         ELSE [known |-> FALSE, char |-> ""]

\* A variant of AtMaxLength that lets one more character in.
AtMaxLength_OneMore(txt, max_length) ==
    IsFinite(max_length) /\ Len(txt) = max_length.v + 1

\* len(self.text) == self.max_length
AtMaxLength(txt, max_length) == IsFinite(max_length) /\ Len(txt) = max_length.v

\* A variant of Allowed that lets every character in.
Allowed_Any(valid_chars, char) == TRUE

\* (self.valid_chars is None) or (char in self.valid_chars)
Allowed(valid_chars, char) == ~valid_chars.given \/ char \in Range(valid_chars.v)

\* A DumbTextInput after __init__: the text is empty and it has drawn itself;
\* last_key and last_char are the key of the latest update and the character
\* it stands for with its modifiers ('' for none).
TextInput(max_length, valid_chars) ==
    [text |-> <<>>, max_length |-> max_length, valid_chars |-> valid_chars,
     text_changed |-> FALSE, redrawn |-> TRUE, last_key |-> "",
     last_char |-> "", created |-> TRUE]

NoText == [TextInput(InfV, NoneL) EXCEPT !.redrawn = FALSE, !.created = FALSE]

\* update(key): the text after the key, text_changed, and whether
\* self.draw() was called; last_key is the name of the key.
TextUpdate(t, key_name, shift, capslock) ==
    LET kc == KeyChar(key_name, shift, capslock)
    IN  IF key_name = "backspace"
        THEN [t EXCEPT !.text = SubSeq(@, 1, Len(@) - 1),
                       !.last_key = key_name, !.last_char = kc.char,
                       !.text_changed = TRUE, !.redrawn = TRUE]
        ELSE IF AtMaxLength(t.text, t.max_length)
        THEN [t EXCEPT !.text_changed = FALSE, !.redrawn = FALSE,
                       !.last_key = key_name, !.last_char = kc.char]
        ELSE LET allowed == Allowed(t.valid_chars, kc.char)
             IN  [t EXCEPT !.text = IF allowed /\ kc.char # ""
                                     THEN Append(@, kc.char) ELSE @,
                           !.last_key = key_name, !.last_char = kc.char,
                           !.text_changed = kc.known /\ allowed,
                           !.redrawn = kc.known /\ allowed]

\* The keys typed into a DumbTextInput, and the ways it is built.
TextKeys == {"backspace", "a", "1", "minus", "return", "lshift"}
MaxLengths == {InfV} \cup {IntV(n) : n \in 0..MaxLength}
ValidChars == {NoneL, ListV(<<"a", "1", "_">>)}

\* ----------------------------------------------------------------- keyboard
\* The keys pressed while the current call waits.
Keyboard ==
    IF likert.called THEN LikertKeys
    ELSE IF instr.called THEN InstrKeys
    ELSE PhysicalKeys

\* What the keyboard and the scanner can produce between two polls.
RawBatches == UNION {[1..n -> Keyboard] : n \in 1..MaxBatch}

Init ==
    /\ trigger \in {NoTrigger, TriggerKey}
    /\ stim = [s \in StimIds |->
                 [pos |-> CASE s = "A" -> -50 [] s = "B" -> 50 [] OTHER -> 0,
                  opacity |-> IF s = "B" THEN DimOpacity ELSE FullOpacity]]
    /\ frames = <<>>
    /\ pc = "idle"
    /\ error = ""
    /\ dur = NoDur
    /\ resp = NoResp
    /\ sel = NoSel
    /\ clock = 0
    /\ trigSeen = 0
    /\ respSeen = 0
    /\ firstQual = NoneR
    /\ ignored = FALSE
    /\ warnings = 0
    /\ likert = NoLikert
    /\ instr = NoInstr
    /\ dlg = NoForm
    /\ text = NoText

\* ------------------------------------------------ draw_stimuli_for_duration
\* A top-level call of draw_stimuli_for_duration.
CallDrawStimuliForDuration ==
    /\ pc = "idle"
    /\ \E stimuli \in StimLists, duration \in Durations, wait_trigger \in BOOLEAN :
         dur' = DurCall(stimuli, duration, wait_trigger, "done")
    /\ pc' = "dur_draw"
    /\ UNCHANGED <<trigger, stim, error, resp, sel, clock, frames, trigSeen,
                   respSeen, firstQual, ignored, warnings>>
    /\ UNCHANGED <<likert, instr, dlg, text>>

\* Where draw_stimuli_for_duration goes after the flip.
AfterFlip(d) ==
    IF d.duration = NoneV THEN d.ret
    ELSE IF d.wait_trigger
         THEN IF ~IsInt(d.duration) THEN "raised"
              ELSE IF d.duration.v = 0 THEN d.ret ELSE "dur_trigger"
         ELSE "dur_sleep"

\* The draws and window.flip(), then the choice of the wait.
DurFlip ==
    /\ pc = "dur_draw"
    /\ frames' = WindowFlip(Drawn(dur.stimuli))
    /\ dur' = dur
    /\ pc' = AfterFlip(dur)
    /\ error' = IF AfterFlip(dur) = "raised" THEN "TypeError" ELSE error
    /\ clock' = 0
    /\ trigSeen' = 0
    /\ UNCHANGED <<trigger, stim, resp, sel, respSeen, firstQual, ignored,
                   warnings>>
    /\ UNCHANGED <<likert, instr, dlg, text>>

\* One turn of the trigger loop: event.waitKeys(keyList=[self.trigger]) hands
\* over the trigger events of one poll.  No key event is named None, so with
\* no trigger configured the call never returns.
DurWaitKeys ==
    /\ pc = "dur_trigger"
    /\ \E raw \in RawBatches :
         LET results == Filter(raw, {trigger}, clock)
         IN  /\ ignored' = (ignored \/ Unlisted(raw, {trigger}))
             /\ IF results = <<>>
                THEN UNCHANGED <<dur, pc, trigSeen>>
                ELSE /\ trigSeen' = trigSeen + Pulses(raw, trigger)
                     /\ dur' = [dur EXCEPT !.k = @ + 1]
                     /\ pc' = IF dur.k + 1 = dur.duration.v
                              THEN dur.ret ELSE "dur_trigger"
    /\ UNCHANGED <<trigger, stim, error, resp, sel, clock, frames, respSeen,
                   firstQual, warnings>>
    /\ UNCHANGED <<likert, instr, dlg, text>>

\* core.wait(duration) returns once duration seconds have passed.
DurWake ==
    /\ pc = "dur_sleep"
    /\ IsFinite(dur.duration)
    /\ clock >= dur.duration.v
    /\ pc' = dur.ret
    /\ UNCHANGED <<trigger, stim, error, dur, resp, sel, clock, frames,
                   trigSeen, respSeen, firstQual, ignored, warnings>>
    /\ UNCHANGED <<likert, instr, dlg, text>>

\* ------------------------------------------------ draw_stimuli_for_response
\* A top-level call of draw_stimuli_for_response: max_wait is normalised and
\* the stimuli are drawn by draw_stimuli_for_duration(stimuli, duration=None).
CallDrawStimuliForResponse ==
    /\ pc = "idle"
    /\ \E stimuli \in StimLists, response_keys \in KeySets,
          max_wait \in Durations, wait_trigger \in BOOLEAN :
         /\ resp' = RespCall(stimuli, response_keys, max_wait, wait_trigger, "done")
         /\ dur' = DurCall(stimuli, NoneV, FALSE, "resp_gather")
    /\ pc' = "dur_draw"
    /\ UNCHANGED <<trigger, stim, error, sel, clock, frames, trigSeen,
                   respSeen, firstQual, ignored, warnings>>
    /\ UNCHANGED <<likert, instr, dlg, text>>

\* A variant of PulseCount that waits for no pulse when max_wait is not an int.
PulseCount_NoWait(max_wait) == IF IsInt(max_wait) THEN max_wait.v ELSE 0

\* The pulse count of a trigger window: max_wait if it is an int, else 1.
PulseCount(max_wait) == IF IsInt(max_wait) THEN max_wait.v ELSE 1

\* A variant of FirstResponse that returns the latest response.
FirstResponse_Last(responses) ==
    IF Len(responses) = 0 THEN NoneR ELSE responses[Len(responses)]

\* return None if no response was accumulated, else responses[0].
FirstResponse(responses) ==
    IF Len(responses) = 0 THEN NoneR ELSE responses[1]

\* return response[0] of a time-based wait.
PickResponse(response) == response[1]

\* A variant of Expired that gives up one second early.
Expired_Early(now, max_wait) == IsFinite(max_wait) /\ now + 1 >= max_wait.v

\* waitKeys(maxWait=max_wait) polls only while the clock is below max_wait.
Expired(now, max_wait) == IsFinite(max_wait) /\ now >= max_wait.v

\* The first of the raw key events that is one of keys, stamped, if first is
\* still None.
FirstOf(first, raw, keys, now) ==
    LET hits == SelectSeq(raw, LAMBDA k : k \in keys)
    IN  IF first = NoneR /\ Len(hits) > 0 THEN <<hits[1], now>> ELSE first

\* After the draw: the set-up of the trigger loop (duration, i, responses,
\* clock) and its first test, or the start of the timed wait.
RespGather ==
    /\ pc = "resp_gather"
    /\ clock' = 0
    /\ trigSeen' = 0
    /\ respSeen' = 0
    /\ firstQual' = NoneR
    /\ IF resp.wait_trigger
       THEN /\ resp' = [resp EXCEPT !.duration = PulseCount(resp.max_wait),
                                    !.i = 0, !.responses = <<>>,
                                    !.result = NoneR]
            /\ warnings' = IF IsInt(resp.max_wait) THEN warnings ELSE warnings + 1
            /\ pc' = IF PulseCount(resp.max_wait) = 0 THEN resp.ret ELSE "resp_loop"
       ELSE /\ pc' = "resp_time"
            /\ UNCHANGED <<resp, warnings>>
    /\ UNCHANGED <<trigger, stim, error, dur, sel, frames, ignored>>
    /\ UNCHANGED <<likert, instr, dlg, text>>

\* One turn of the trigger loop: waitKeys(keyList=[self.trigger] +
\* response_keys) hands over the events of one poll; each trigger adds one to
\* i, every other event is appended to responses; then the test i != duration.
\* The locals i and responses end with the call: the frame keeps the result.
RespLoopWaitKeys ==
    /\ pc = "resp_loop"
    /\ \E raw \in RawBatches :
         LET keyList == {trigger} \cup resp.response_keys
             results == Filter(raw, keyList, clock)
             i == Sat(resp.i + Len(Triggers(results, trigger)))
             responses == resp.responses \o NonTriggers(results, trigger)
         IN  /\ Len(responses) <= MaxResponses
             /\ ignored' = (ignored \/ Unlisted(raw, keyList))
             /\ trigSeen' = Sat(trigSeen + Pulses(raw, trigger))
             /\ respSeen' = respSeen + Len(SelectSeq(raw, LAMBDA k :
                                 k \in resp.response_keys \ {trigger}))
             /\ firstQual' = FirstOf(firstQual, raw,
                                     resp.response_keys \ {trigger}, clock)
             /\ IF i = resp.duration
                THEN /\ resp' = [resp EXCEPT !.i = 0, !.responses = <<>>,
                                             !.result = FirstResponse(responses)]
                     /\ pc' = resp.ret
                ELSE /\ resp' = [resp EXCEPT !.i = i, !.responses = responses]
                     /\ pc' = "resp_loop"
    /\ UNCHANGED <<trigger, stim, error, dur, sel, clock, frames, warnings>>
    /\ UNCHANGED <<likert, instr, dlg, text>>

\* The timed wait: waitKeys(maxWait=max_wait, keyList=response_keys) hands
\* over the matching events of one poll and the first of them is returned.
RespTimeWaitKeys ==
    /\ pc = "resp_time"
    /\ ~Expired(clock, resp.max_wait)
    /\ \E raw \in RawBatches :
         LET results == Filter(raw, resp.response_keys, clock)
         IN  /\ ignored' = (ignored \/ Unlisted(raw, resp.response_keys))
             /\ firstQual' = FirstOf(firstQual, raw, resp.response_keys, clock)
             /\ IF results = <<>>
                THEN UNCHANGED <<resp, pc>>
                ELSE /\ resp' = [resp EXCEPT !.result = PickResponse(results)]
                     /\ pc' = resp.ret
    /\ UNCHANGED <<trigger, stim, error, dur, sel, clock, frames, trigSeen,
                   respSeen, warnings>>
    /\ UNCHANGED <<likert, instr, dlg, text>>

\* The timed wait ran out: waitKeys returned None and so does the call.
RespTimeout ==
    /\ pc = "resp_time"
    /\ Expired(clock, resp.max_wait)
    /\ resp' = [resp EXCEPT !.result = NoneR]
    /\ pc' = resp.ret
    /\ UNCHANGED <<trigger, stim, error, dur, sel, clock, frames, trigSeen,
                   respSeen, firstQual, ignored, warnings>>
    /\ UNCHANGED <<likert, instr, dlg, text>>

\* ------------------------------------------------------ select_from_stimuli
\* A call of select_from_stimuli: the key map is built, and the options are
\* shown by draw_stimuli_for_response(stimuli, response_keys.keys(), max_wait,
\* resp_wait_trigger).
CallSelectFromStimuli ==
    /\ pc = "idle"
    /\ \E form \in KeyForms, max_wait \in SelWaits, resp_wait_trigger \in BOOLEAN :
         /\ sel' = SelCall(Options, form, max_wait, resp_wait_trigger)
         /\ resp' = RespCall(Options, DOMAIN ToKeyMap(form), max_wait,
                             resp_wait_trigger, "sel_branch")
         /\ dur' = DurCall(Options, NoneV, FALSE, "resp_gather")
    /\ pc' = "dur_draw"
    /\ UNCHANGED <<trigger, stim, error, clock, frames, trigSeen, respSeen,
                   firstQual, ignored, warnings>>
    /\ UNCHANGED <<likert, instr, dlg, text>>

\* if response is None or len(response) == 0
NoResponse(response) == response = NoneR \/ Len(response) = 0

\* selection = response_keys[key_pressed]
Selection(response_keys, key_pressed) == response_keys[key_pressed]

\* stimuli[selection] for a list of n items: the place of the item, counted
\* from one (a negative index counts from the end of the list), and whether
\* the index is out of range (IndexError).
PyItem(n, selection) == IF selection < 0 THEN n + selection + 1 ELSE selection + 1
OutOfRange(n, selection) == selection >= n \/ selection < 0 - n

\* A variant of RestoreOpacity that leaves the opacity as it is.
RestoreOpacity_Skip(opacity) == opacity

\* A variant of ReduceOpacity that leaves the opacity as it is.
ReduceOpacity_None(opacity) == opacity

\* selected_stim.opacity -= / += self.SELECTED_STIM_OPACITY_CHANGE
ReduceOpacity(opacity) == opacity - SELECTED_STIM_OPACITY_CHANGE
RestoreOpacity(opacity) == opacity + SELECTED_STIM_OPACITY_CHANGE

\* A variant of FeedbackCall that shows no_response_stim without holding it.
FeedbackCall_Unheld(no_response_stim, no_resp_feedback_time, feedback_wait_trigger) ==
    IF no_response_stim = NoStim
    THEN NoDur
    ELSE DurCall(<<no_response_stim>>, NoneV, feedback_wait_trigger,
                 "sel_feedback_done")

\* What the no-response branch does with no_response_stim: return None at
\* once, or show it by draw_stimuli_for_duration(no_response_stim,
\* no_resp_feedback_time, feedback_wait_trigger).
FeedbackCall(no_response_stim, no_resp_feedback_time, feedback_wait_trigger) ==
    IF no_response_stim = NoStim
    THEN NoDur
    ELSE DurCall(<<no_response_stim>>, no_resp_feedback_time,
                 feedback_wait_trigger, "sel_feedback_done")

\* The branch without a response (response too slow).
SelNoResponse ==
    /\ pc = "sel_branch"
    /\ NoResponse(resp.result)
    /\ \E no_response_stim \in {NoStim, "N"}, no_resp_feedback_time \in SelWaits,
          feedback_wait_trigger \in BOOLEAN :
         LET call == FeedbackCall(no_response_stim, no_resp_feedback_time,
                                  feedback_wait_trigger)
         IN  /\ sel' = [sel EXCEPT !.no_response_stim = no_response_stim,
                                   !.no_resp_feedback_time = no_resp_feedback_time,
                                   !.feedback_wait_trigger = feedback_wait_trigger,
                                   !.result = NoneD]
             /\ IF call = NoDur
                THEN pc' = "done" /\ dur' = dur
                ELSE pc' = "dur_draw" /\ dur' = call
    /\ UNCHANGED <<trigger, stim, error, resp, clock, frames, trigSeen,
                   respSeen, firstQual, ignored, warnings>>
    /\ UNCHANGED <<likert, instr, dlg, text>>

\* The branch with a response: the key is looked up, stimuli[selection] is
\* taken (an IndexError out of the range of the list); then its opacity is
\* reduced, or the highlight is moved onto it and appended to stimuli; then
\* draw_stimuli_for_duration(stimuli, post_selection_time,
\* post_select_wait_trigger).
SelResponse ==
    /\ pc = "sel_branch"
    /\ ~NoResponse(resp.result)
    /\ \E highlight \in {NoStim, "H"}, post \in PostSelections :
         LET post_selection_time == post[1]
             post_select_wait_trigger == post[2]
             selection == Selection(sel.response_keys, resp.result[1])
             selected_stim == sel.stimuli[PyItem(Len(sel.stimuli), selection)]
             args == [sel EXCEPT !.highlight = highlight,
                                 !.post_selection_time = post_selection_time,
                                 !.post_select_wait_trigger = post_select_wait_trigger,
                                 !.selection = selection]
         IN  IF OutOfRange(Len(sel.stimuli), selection)
             THEN /\ pc' = "raised"
                  /\ error' = "IndexError"
                  /\ sel' = args
                  /\ UNCHANGED <<stim, dur>>
             ELSE IF highlight = NoStim
             THEN /\ stim' = [stim EXCEPT ![selected_stim].opacity =
                                              ReduceOpacity(@)]
                  /\ sel' = args
                  /\ dur' = DurCall(sel.stimuli, post_selection_time,
                                    post_select_wait_trigger, "sel_restore")
                  /\ pc' = "dur_draw"
                  /\ error' = error
             ELSE /\ stim' = [stim EXCEPT ![highlight].pos =
                                              stim[selected_stim].pos]
                  /\ sel' = [args EXCEPT !.stimuli = Append(@, highlight)]
                  /\ dur' = DurCall(Append(sel.stimuli, highlight),
                                    post_selection_time,
                                    post_select_wait_trigger, "sel_post_done")
                  /\ pc' = "dur_draw"
                  /\ error' = error
    /\ UNCHANGED <<trigger, resp, clock, frames, trigSeen, respSeen,
                   firstQual, ignored, warnings>>
    /\ UNCHANGED <<likert, instr, dlg, text>>

\* After the reduced-opacity frame: the opacity is put back and the
\* dictionary is returned.
SelRestore ==
    /\ pc = "sel_restore"
    /\ stim' = [stim EXCEPT
                   ![sel.stimuli[PyItem(Len(sel.stimuli), sel.selection)]].opacity =
                       RestoreOpacity(@)]
    /\ sel' = [sel EXCEPT !.result = Dict(sel.selection, resp.result[2])]
    /\ pc' = "done"
    /\ UNCHANGED <<trigger, error, dur, resp, clock, frames, trigSeen,
                   respSeen, firstQual, ignored, warnings>>
    /\ UNCHANGED <<likert, instr, dlg, text>>

\* After the highlighted frame: the dictionary is returned.
SelPostDone ==
    /\ pc = "sel_post_done"
    /\ sel' = [sel EXCEPT !.result = Dict(sel.selection, resp.result[2])]
    /\ pc' = "done"
    /\ UNCHANGED <<trigger, stim, error, dur, resp, clock, frames, trigSeen,
                   respSeen, firstQual, ignored, warnings>>
    /\ UNCHANGED <<likert, instr, dlg, text>>

\* After the no-response feedback: None is returned.
SelFeedbackDone ==
    /\ pc = "sel_feedback_done"
    /\ pc' = "done"
    /\ UNCHANGED <<trigger, stim, error, dur, resp, sel, clock, frames,
                   trigSeen, respSeen, firstQual, ignored, warnings>>
    /\ UNCHANGED <<likert, instr, dlg, text>>

\* ------------------------------------------------------------- likert_scale
\* The names of a list of constructed stimuli, in list order.
Ids(objs) == [k \in 1..Len(objs) |-> objs[k].id]

\* The drawable objects once the stimuli of objs have been constructed.
WithStimuli(objs) ==
    [s \in DOMAIN stim \cup Range(Ids(objs)) |->
        IF s \in Range(Ids(objs))
        THEN objs[CHOOSE k \in 1..Len(objs) : objs[k].id = s].obj
        ELSE stim[s]]

\* A call of likert_scale: the checks of the arguments (a ValueError ends the
\* call there), the construction of the stimuli and of the response keys, and
\* draw_stimuli_for_response(stimuli, response_keys, wait_trigger=wait_trigger).
CallLikertScale ==
    /\ pc = "idle"
    /\ \E num_options \in LikertCounts, wait_trigger \in BOOLEAN :
         \E args \in LikertArgs(num_options) :
           LET call == LikertCall(num_options, args[1], args[2], args[3],
                                  args[4], wait_trigger)
           IN  /\ likert' = call
               /\ IF call.error # ""
                  THEN /\ pc' = "raised"
                       /\ error' = call.error
                       /\ UNCHANGED <<stim, resp, dur>>
                  ELSE /\ stim' = WithStimuli(call.stimuli)
                       /\ resp' = RespCall(Ids(call.stimuli),
                                           Range(call.response_keys), InfV,
                                           wait_trigger, "likert_done")
                       /\ dur' = DurCall(Ids(call.stimuli), NoneV, FALSE,
                                         "resp_gather")
                       /\ pc' = "dur_draw"
                       /\ error' = error
    /\ UNCHANGED <<trigger, sel, clock, frames, trigSeen, respSeen, firstQual,
                   ignored, warnings, instr, dlg, text>>

\* return response
LikertReturn ==
    /\ pc = "likert_done"
    /\ likert' = [likert EXCEPT !.result = resp.result]
    /\ pc' = "done"
    /\ UNCHANGED <<trigger, stim, error, dur, resp, sel, clock, frames,
                   trigSeen, respSeen, firstQual, ignored, warnings, instr,
                   dlg, text>>

\* -------------------------------------------------------- show_instructions
\* A call of show_instructions: a single string becomes a list of one page,
\* and next_page_stim is constructed if there is a next_page_text.
CallShowInstructions ==
    /\ pc = "idle"
    /\ \E instructions \in InstrPages,
          next_page_text \in {NoStim, "Press space to continue"},
          duration \in Durations, wait_trigger \in BOOLEAN :
         LET call == InstrCall(instructions, "space", next_page_text, duration,
                               wait_trigger)
         IN  /\ instr' = call
             /\ stim' = IF call.next_page_stim = NoStim THEN stim
                        ELSE WithStimuli(<<[id |-> call.next_page_stim,
                                  obj |-> TextStim(next_page_text, 0, 0 - 80)]>>)
    /\ pc' = "instr_page"
    /\ UNCHANGED <<trigger, error, dur, resp, sel, clock, frames, trigSeen,
                   respSeen, firstQual, ignored, warnings, likert, dlg, text>>

\* One turn of the for loop: instr_stim is constructed for the next page and
\* draw_stimuli_for_response(list(other_stim) + [instr_stim, next_page_stim],
\* [key_to_continue], max_wait=duration, wait_trigger=wait_trigger) is
\* called; after the last page the call returns.
InstrPage ==
    /\ pc = "instr_page"
    /\ IF instr.i < Len(instr.instructions)
       THEN LET instr_stim == "page" \o Str(instr.i + 1)
                stimuli == <<instr_stim, instr.next_page_stim>>
            IN  /\ stim' = WithStimuli(<<[id |-> instr_stim,
                              obj |-> TextStim(instr.instructions[instr.i + 1],
                                               0, 0)]>>)
                /\ resp' = RespCall(stimuli, {instr.key_to_continue},
                                    instr.duration, instr.wait_trigger,
                                    "instr_page")
                /\ dur' = DurCall(stimuli, NoneV, FALSE, "resp_gather")
                /\ instr' = [instr EXCEPT !.i = @ + 1]
                /\ pc' = "dur_draw"
       ELSE /\ pc' = "done"
            /\ UNCHANGED <<stim, resp, dur, instr>>
    /\ UNCHANGED <<trigger, error, sel, clock, frames, trigSeen, respSeen,
                   firstQual, ignored, warnings, likert, dlg, text>>

\* --------------------------------------------------------- show_form_dialog
\* A call of show_form_dialog(items, validation_func, reset_after_error).
CallShowFormDialog ==
    /\ pc = "idle"
    /\ \E validate \in BOOLEAN, reset_after_error \in BOOLEAN :
         dlg' = FormCall(EmptyItems, validate, reset_after_error)
    /\ pc' = "form_dialog"
    /\ UNCHANGED <<trigger, stim, error, dur, resp, sel, clock, frames,
                   trigSeen, respSeen, firstQual, ignored, warnings, likert,
                   instr, text>>

\* One turn of the while loop: original_items = items.copy(); the dialog on
\* the dictionary items refers to, which the user's input is written into when
\* the user presses OK; then the validation.  A rejected input is logged and,
\* with reset_after_error, the name items is rebound to original_items.  A
\* cancelled dialog ends the program (core.quit()).
FormDialog ==
    /\ pc = "form_dialog"
    /\ \E ok \in BOOLEAN, input \in Items :
         LET items == IF dlg.aliased THEN dlg.caller ELSE dlg.local
             original == items
             written == [dlg EXCEPT
                            !.original_items = original,
                            !.caller = IF dlg.aliased /\ ok THEN input ELSE @,
                            !.local = IF ok THEN input ELSE items]
         IN  IF ~ok
             THEN /\ dlg' = written
                  /\ pc' = "quit"
                  /\ warnings' = warnings + 1
             ELSE IF ~dlg.validate \/ Validation(input)
             THEN /\ dlg' = [written EXCEPT !.entered = input]
                  /\ pc' = "done"
                  /\ warnings' = warnings
             ELSE /\ dlg.rejected < MaxAttempts
                  /\ dlg' = [written EXCEPT
                                 !.rejected = @ + 1,
                                 !.aliased = IF dlg.reset_after_error
                                             THEN FALSE ELSE @,
                                 !.local = IF dlg.reset_after_error
                                           THEN original ELSE @]
                  /\ pc' = "form_dialog"
                  /\ warnings' = warnings
    /\ UNCHANGED <<trigger, stim, error, dur, resp, sel, clock, frames,
                   trigSeen, respSeen, firstQual, ignored, likert, instr, text>>

\* ------------------------------------------------------------ DumbTextInput
\* DumbTextInput(window, width, height, max_length=..., valid_chars=...).
NewDumbTextInput ==
    /\ pc = "idle"
    /\ \E max_length \in MaxLengths, valid_chars \in ValidChars :
         text' = TextInput(max_length, valid_chars)
    /\ pc' = "text_ready"
    /\ UNCHANGED <<trigger, stim, error, dur, resp, sel, clock, frames,
                   trigSeen, respSeen, firstQual, ignored, warnings, likert,
                   instr, dlg>>

\* update(key) for a key with its modifiers, as wait_key hands it over.
Update ==
    /\ pc = "text_ready"
    /\ \E key_name \in TextKeys, shift \in BOOLEAN, capslock \in BOOLEAN :
         /\ key_name = "backspace" \/ Len(text.text) < MaxText
         /\ text' = TextUpdate(text, key_name, shift, capslock)
    /\ UNCHANGED <<trigger, stim, pc, error, dur, resp, sel, clock, frames,
                   trigSeen, respSeen, firstQual, ignored, warnings, likert,
                   instr, dlg>>

\* ------------------------------------------------- fixations, blank screen
\* The stimuli show_fixation, show_two_fixations and show_blank_screen
\* construct, each with its name in the model.
FixationStimuli(phase) ==
    CASE phase = "show_fixation" ->
            <<[id |-> "plus_sign", obj |-> TextStim("+", 0, 0)]>>
      [] phase = "show_two_fixations" ->
            <<[id |-> "plus_sign1", obj |-> TextStim("+", 0, 0)],
              [id |-> "plus_sign2", obj |-> TextStim("+", 0, 0)]>>
      [] phase = "show_blank_screen" ->
            <<[id |-> "blank", obj |-> TextStim("", 0, 0)]>>

\* The body the three phases share: the stimuli are constructed and handed
\* to draw_stimuli_for_duration(stimuli, duration, wait_trigger).
PresentOnly(phase) ==
    /\ pc = "idle"
    /\ \E duration \in Durations, wait_trigger \in BOOLEAN :
         dur' = DurCall(Ids(FixationStimuli(phase)), duration, wait_trigger,
                        "fix_done")
    /\ stim' = WithStimuli(FixationStimuli(phase))
    /\ pc' = "dur_draw"
    /\ UNCHANGED <<trigger, error, resp, sel, clock, frames, trigSeen,
                   respSeen, firstQual, ignored, warnings, likert, instr, dlg,
                   text>>

\* show_fixation(duration, pos, wait_trigger)
CallShowFixation == PresentOnly("show_fixation")

\* show_two_fixations(duration, color, pos, wait_trigger)
CallShowTwoFixations == PresentOnly("show_two_fixations")

\* show_blank_screen(duration, wait_trigger)
CallShowBlankScreen == PresentOnly("show_blank_screen")

\* The end of the three phases: a log line, and nothing is returned.
FixationReturn ==
    /\ pc = "fix_done"
    /\ pc' = "done"
    /\ UNCHANGED <<trigger, stim, error, dur, resp, sel, clock, frames,
                   trigSeen, respSeen, firstQual, ignored, warnings, likert,
                   instr, dlg, text>>

\* ------------------------------------------- an event source with no events
\* The timed wait when waitKeys hands over an empty list: response is not
\* None, so the call logs it and evaluates response[0], an IndexError.
RespTimeEmptyResult ==
    /\ pc = "resp_time"
    /\ ~Expired(clock, resp.max_wait)
    /\ resp' = [resp EXCEPT !.empty_seen = TRUE]
    /\ pc' = "raised"
    /\ error' = "IndexError"
    /\ UNCHANGED <<trigger, stim, dur, sel, clock, frames, trigSeen, respSeen,
                   firstQual, ignored, warnings, likert, instr, dlg, text>>

\* One turn of the trigger loop when waitKeys hands over an empty list: the
\* for loop has nothing to go through, i and responses stay, and the test
\* i != duration sends the call back to waitKeys.
RespLoopEmptyResult ==
    /\ pc = "resp_loop"
    /\ resp' = [resp EXCEPT !.empty_seen = TRUE]
    /\ UNCHANGED <<trigger, stim, pc, error, dur, sel, clock, frames, trigSeen,
                   respSeen, firstQual, ignored, warnings, likert, instr, dlg,
                   text>>

\* A second passes while the call is blocked.
Tick ==
    /\ pc \in {"dur_sleep", "resp_time", "resp_loop"}
    /\ clock < MaxClock
    /\ pc = "dur_sleep" => ~(IsFinite(dur.duration) /\ clock >= dur.duration.v)
    /\ pc = "resp_time" => ~Expired(clock, resp.max_wait)
    /\ clock' = clock + 1
    /\ UNCHANGED <<trigger, stim, pc, error, dur, resp, sel, frames, trigSeen,
                   respSeen, firstQual, ignored, warnings>>
    /\ UNCHANGED <<likert, instr, dlg, text>>

Next ==
    \/ CallDrawStimuliForDuration
    \/ CallDrawStimuliForResponse
    \/ DurFlip
    \/ DurWaitKeys
    \/ DurWake
    \/ RespGather
    \/ RespLoopWaitKeys
    \/ RespTimeWaitKeys
    \/ RespTimeout
    \/ CallSelectFromStimuli
    \/ SelNoResponse
    \/ SelResponse
    \/ SelRestore
    \/ SelPostDone
    \/ SelFeedbackDone
    \/ Tick

Spec == Init /\ [][Next]_vars

\* The program's own steps are taken when they can be, time passes, and the
\* event source keeps handing over events while a wait polls it.
FairSpec ==
    /\ Spec
    /\ WF_vars(DurFlip) /\ WF_vars(RespGather) /\ WF_vars(Tick)
    /\ WF_vars(DurWaitKeys) /\ WF_vars(RespLoopWaitKeys)

\* The calls of likert_scale.
LikertNext ==
    \/ CallLikertScale
    \/ DurFlip
    \/ RespGather
    \/ RespLoopWaitKeys
    \/ RespTimeWaitKeys
    \/ LikertReturn
    \/ Tick

LikertSpec == Init /\ [][LikertNext]_vars

\* The calls of show_instructions.
InstrNext ==
    \/ CallShowInstructions
    \/ InstrPage
    \/ DurFlip
    \/ RespGather
    \/ RespLoopWaitKeys
    \/ RespTimeWaitKeys
    \/ RespTimeout
    \/ Tick

InstrSpec == Init /\ [][InstrNext]_vars

\* The calls of show_form_dialog.
FormNext ==
    \/ CallShowFormDialog
    \/ FormDialog

FormSpec == Init /\ [][FormNext]_vars

\* A DumbTextInput and the keys typed into it.
TextNext ==
    \/ NewDumbTextInput
    \/ Update

TextSpec == Init /\ [][TextNext]_vars

\* The calls of draw_stimuli_for_response on an event source that may hand
\* over an empty list.
EmptyResultNext ==
    \/ CallDrawStimuliForResponse
    \/ DurFlip
    \/ RespGather
    \/ RespLoopWaitKeys
    \/ RespLoopEmptyResult
    \/ RespTimeWaitKeys
    \/ RespTimeEmptyResult
    \/ RespTimeout
    \/ Tick

EmptyResultSpec == Init /\ [][EmptyResultNext]_vars

\* The calls of show_fixation, show_two_fixations and show_blank_screen.
FixationNext ==
    \/ CallShowFixation
    \/ CallShowTwoFixations
    \/ CallShowBlankScreen
    \/ DurFlip
    \/ DurWaitKeys
    \/ DurWake
    \/ FixationReturn
    \/ Tick

FixationSpec == Init /\ [][FixationNext]_vars

\* ------------------------------------------------------------------ claims
\* Where the call stands while it is blocked on time or on the event source.
Blocked == pc \in {"dur_trigger", "dur_sleep", "resp_loop", "resp_time"}

\* The call is a call of select_from_stimuli.
InSelect == sel.entry_stimuli # <<>>

\* draw_stimuli_for_duration has just come back from a trigger wait of n >= 1.
DurTriggerReturned ==
    /\ pc \notin {"idle", "dur_draw", "dur_trigger", "raised"}
    /\ dur.wait_trigger /\ IsInt(dur.duration)
    /\ dur.duration.v >= 1 /\ dur.k = dur.duration.v

\* draw_stimuli_for_response has just come back.
RespReturned == pc = resp.ret /\ resp.ret # "idle"

\* C1: for every trigger count n >= 1 and every batching of the events, a
\* trigger-mode wait of draw_stimuli_for_duration or of
\* draw_stimuli_for_response has consumed exactly n trigger events when it
\* returns.
C1_ExactlyNTriggers ==
    /\ DurTriggerReturned => trigSeen = dur.duration.v
    /\ (RespReturned /\ resp.wait_trigger /\ resp.duration >= 1)
          => trigSeen = resp.duration

\* C2: with a trigger configured and an integer pulse count n >= 1, the
\* trigger loop of draw_stimuli_for_response is left after finitely many
\* deliveries, however the event source batches them.
C2_TriggerLoopReturns ==
    [](pc = "resp_loop" /\ trigger = TriggerKey /\ IsInt(resp.max_wait)
          => <>(pc # "resp_loop"))

\* C8: with no trigger configured, a trigger-based wait that is asked for
\* pulses ends in an error at once: the call is never found blocked on the
\* event source.
C8_NoTriggerIsFatal ==
    (trigger = NoTrigger) => pc \notin {"dur_trigger", "resp_loop"}

\* The index the caller's response_keys gives key k: the value of the
\* dictionary at k, or the place of k in the list, counted from zero.
Configured(form, k, index) ==
    \E n \in 1..Len(form.keys) :
        /\ form.keys[n] = k
        /\ index = IF form.kind = "dict" THEN form.idx[n] ELSE n - 1

\* C3: select_from_stimuli resolves the response through the configured key
\* map: a returned dictionary holds the index the map gives the key of the
\* collected event (the first event of the window whose key is in the map)
\* and that event's timestamp; and the collection ends only on such an
\* event, on the timeout or on the pulse count, never on a key outside the map.
C3_KeyMapResolution ==
    /\ (InSelect /\ pc = "done" /\ ~sel.result.none) =>
          /\ resp.result = firstQual
          /\ Configured(sel.form, firstQual[1], sel.result.selection)
          /\ sel.result.rt = firstQual[2]
    /\ (InSelect /\ pc = "done" /\ sel.result.none) => resp.result = NoneR
    /\ (InSelect /\ RespReturned /\ ~resp.wait_trigger) =>
          \/ /\ firstQual # NoneR
             /\ \E n \in 1..Len(sel.form.keys) :
                    sel.form.keys[n] = firstQual[1]
          \/ IsFinite(resp.max_wait) /\ clock >= resp.max_wait.v
    /\ (InSelect /\ RespReturned /\ resp.wait_trigger) =>
          trigSeen = resp.duration

\* C3 witness: key j, pressed a second after an unmapped key was ignored,
\* selected the option the dictionary {f: 1, j: 0} gives it.
C3_Witness ==
    /\ InSelect /\ pc = "done" /\ ignored
    /\ ~sel.resp_wait_trigger /\ ~sel.post_select_wait_trigger
    /\ sel.form = DictForm(<<"f", "j">>, <<1, 0>>)
    /\ sel.result = Dict(0, 1)
    /\ firstQual = <<"j", 1>>

\* C4: a time-based draw_stimuli_for_response returns the first event whose
\* key is in response_keys when one arrives before max_wait, and None only
\* when a finite max_wait has run out with no such event; with max_wait None
\* or infinite it never returns None.
C4_TimedCollection ==
    (RespReturned /\ ~resp.wait_trigger) =>
       /\ resp.result # NoneR =>
             /\ resp.result = firstQual
             /\ resp.result[1] \in resp.response_keys
             /\ IsFinite(resp.max_wait_arg) => resp.result[2] < resp.max_wait_arg.v
       /\ resp.result = NoneR =>
             /\ firstQual = NoneR
             /\ IsFinite(resp.max_wait_arg)
             /\ clock >= resp.max_wait_arg.v
       /\ resp.max_wait_arg \in {NoneV, InfV} => resp.result # NoneR

\* C4 witness: with max_wait None, a listed key pressed after two seconds and
\* after an unlisted key is returned with its timestamp.
C4_Witness ==
    /\ pc = "done" /\ resp.ret = "done" /\ ~resp.wait_trigger
    /\ resp.max_wait_arg = NoneV
    /\ ignored
    /\ resp.result = <<"f", 2>>

\* C5: a trigger-based draw_stimuli_for_response returns the first
\* non-trigger event of the whole pulse window, or None if there was none;
\* never a trigger event, and never a later response.
C5_FirstNonTrigger ==
    (RespReturned /\ resp.wait_trigger) =>
       /\ resp.result = firstQual
       /\ resp.result[1] # trigger
       /\ respSeen = 0 <=> resp.result = NoneR

\* C5 witness: two responses came in one window of two pulses, the second a
\* second after the first, and the first was returned.
C5_Witness ==
    /\ pc = "done" /\ resp.ret = "done" /\ resp.wait_trigger
    /\ resp.duration = 2 /\ trigSeen = 2
    /\ respSeen = 2
    /\ resp.result = <<"f", 0>>
    /\ clock >= 1

\* The frames flipped by the current call of draw_stimuli_for_duration.
FlipsOfCall == Len(frames) - dur.entry_frames

\* The current wait of draw_stimuli_for_duration has run its course: the
\* seconds have passed, or the loop has had its duration results, each with
\* at least one trigger event.
Held(d) ==
    IF d.duration = NoneV THEN TRUE
    ELSE IF d.wait_trigger
         THEN IsInt(d.duration) /\ d.k = d.duration.v /\ trigSeen >= d.duration.v
         ELSE IsFinite(d.duration) /\ clock >= d.duration.v

\* C6: every call of draw_stimuli_for_duration flips the window exactly
\* once, whatever the policy: none before the draw, one from the flip on,
\* through the wait and after the return; and with duration None it does not
\* block.
C6_OneFlipPerCall ==
    /\ pc = "dur_draw" => FlipsOfCall = 0
    /\ pc \notin {"idle", "dur_draw"} => FlipsOfCall = 1
    /\ pc \in {"dur_trigger", "dur_sleep"} => dur.duration # NoneV

\* C6 witness: a wait for two pulses has returned, one frame was flipped.
C6_Witness ==
    /\ pc = "done" /\ dur.ret = "done"
    /\ dur.wait_trigger /\ dur.duration = IntV(2) /\ dur.k = 2
    /\ Len(frames) = 1

\* C7: the frame of a step is flipped before the step blocks; events are
\* consumed only while it is blocked; and a block ends only when the time is
\* up, when the pulse count is reached, or on a listed response event.
C7_FlipThenBlock ==
    /\ [](Blocked => (FlipsOfCall = 1 /\ Len(frames) >= 1))
    /\ [][(\/ trigSeen' > trigSeen
           \/ respSeen' > respSeen
           \/ (firstQual = NoneR /\ firstQual' # NoneR)
           \/ (~ignored /\ ignored'))
          => (Blocked /\ FlipsOfCall = 1)]_vars
    /\ [][(Blocked /\ pc' # pc) =>
            CASE pc = "dur_sleep" ->
                    IsFinite(dur.duration) /\ clock >= dur.duration.v
              [] pc = "dur_trigger" ->
                    dur.k' = dur.duration.v /\ trigSeen' >= dur.duration.v
              [] pc = "resp_loop" -> trigSeen' = resp.duration
              [] pc = "resp_time" ->
                    \/ /\ IsFinite(resp.max_wait) /\ clock >= resp.max_wait.v
                       /\ resp.result' = NoneR
                    \/ /\ ~(IsFinite(resp.max_wait) /\ clock >= resp.max_wait.v)
                       /\ firstQual' # NoneR
                       /\ firstQual'[1] \in resp.response_keys]_vars

\* C7 witness: a timed collection of two seconds ran out after an unlisted
\* key had been pressed, and None came back.
C7_Witness ==
    /\ pc = "done" /\ resp.ret = "done" /\ ~resp.wait_trigger
    /\ resp.max_wait_arg = IntV(2) /\ clock = 2
    /\ ignored /\ resp.result = NoneR
    /\ Len(frames) = 1

\* C9: when select_from_stimuli has collected no response it returns None;
\* with a no_response_stim it has flipped two frames, the options and then
\* no_response_stim alone, and held the second for no_resp_feedback_time
\* (seconds or pulses); without one it has flipped the options frame only.
C9_NoResponseFeedback ==
    (InSelect /\ pc = "done" /\ NoResponse(resp.result)) =>
       /\ sel.result = NoneD
       /\ sel.no_response_stim = NoStim => Len(frames) = 1
       /\ sel.no_response_stim # NoStim =>
             /\ Len(frames) = 2
             /\ Len(frames[2]) = 1 /\ frames[2][1].id = sel.no_response_stim
             /\ dur.duration = sel.no_resp_feedback_time
             /\ dur.wait_trigger = sel.feedback_wait_trigger
             /\ Held(dur)

\* C9 witness: no response within one second, then the no-response message
\* held for two seconds, then None.
C9_Witness ==
    /\ InSelect /\ pc = "done" /\ resp.result = NoneR
    /\ sel.max_wait = IntV(1) /\ ~sel.resp_wait_trigger
    /\ sel.no_response_stim = "N" /\ ~sel.feedback_wait_trigger
    /\ sel.no_resp_feedback_time = IntV(2) /\ clock = 2
    /\ Len(frames) = 2

C11_StimuliUnchanged ==
    (InSelect /\ pc = "done") => sel.stimuli = sel.entry_stimuli

\* The configuration of the current likert trial is one the claim calls
\* invalid.
InvalidLikert ==
    \/ likert.num_options < 2
    \/ likert.num_options > 10
    \/ /\ likert.args.option_texts.given
       /\ Len(likert.args.option_texts.v) # likert.num_options
    \/ /\ likert.args.option_labels.given
       /\ Len(likert.args.option_labels.v) # likert.num_options
    \/ /\ likert.args.side_labels.given
       /\ Len(likert.args.side_labels.v) # 2

\* C12: a likert_scale call with an invalid configuration (num_options below
\* 2 or above 10, option_texts or option_labels of another length than
\* num_options, side_labels of another length than 2) has ended in a
\* ValueError with no stimulus constructed, no frame flipped and no event
\* taken from the event source.
C12_InvalidLikertRejected ==
    (likert.called /\ InvalidLikert) =>
       /\ pc = "raised" /\ error = "ValueError"
       /\ DOMAIN stim = StimIds
       /\ likert.stimuli = <<>>
       /\ frames = <<>>
       /\ firstQual = NoneR /\ trigSeen = 0 /\ respSeen = 0 /\ ~ignored

\* C12 witness: three options with four option labels were rejected.
C12_Witness ==
    /\ likert.called /\ likert.num_options = 3
    /\ ~likert.args.option_texts.given /\ ~likert.args.side_labels.given
    /\ likert.args.option_labels.given
    /\ Len(likert.args.option_labels.v) = 4
    /\ pc = "raised" /\ error = "ValueError"

\* C13: in trigger-based mode draw_stimuli_for_response does not reject a
\* max_wait that is not an integer (None, the default infinity, a float): it
\* logs one warning and waits for one pulse; with an integer max_wait it
\* waits for that many pulses and logs no warning.  It is in the loop while
\* the pulses seen differ from the count and has seen exactly the count when
\* it returns.
C13_NonIntegerFallsBack ==
    (resp.wait_trigger /\ resp.ret # "idle" /\ pc \in {"resp_loop", resp.ret}) =>
       /\ error = ""
       /\ IsInt(resp.max_wait_arg) =>
             resp.duration = resp.max_wait_arg.v /\ warnings = 0
       /\ ~IsInt(resp.max_wait_arg) => resp.duration = 1 /\ warnings = 1
       /\ pc = "resp_loop" => trigSeen # resp.duration
       /\ pc = resp.ret => trigSeen = resp.duration

\* C13 witness: a trigger-based collection with max_wait None came back
\* after one pulse, with one warning logged.
C13_Witness ==
    /\ pc = "done" /\ resp.ret = "done" /\ resp.wait_trigger
    /\ resp.max_wait_arg = NoneV
    /\ warnings = 1 /\ trigSeen = 1 /\ error = ""

\* The texts of the option stimuli of the current likert trial, as displayed.
DisplayedOptionTexts ==
    {likert.stimuli[k].obj.text : k \in 2..(likert.num_options + 1)}

\* C14: a valid likert_scale call with response_keys omitted collects on
\* exactly num_options distinct keys, "1".."N" in order with "0" in the tenth
\* place for ten options: these are the keys handed to the collector and a
\* returned response carries one of them; for ten options with the default
\* option texts the keys are, as a set, the displayed option texts.
C14_DefaultLikertKeys ==
    (likert.called /\ likert.error = "" /\ ~likert.args.response_keys.given) =>
       /\ Len(likert.response_keys) = likert.num_options
       /\ Cardinality(Range(likert.response_keys)) = likert.num_options
       /\ \A i \in 1..likert.num_options :
             likert.response_keys[i] = IF i = 10 THEN "0" ELSE Digits[i + 1]
       /\ resp.response_keys = Range(likert.response_keys)
       /\ (pc = "done" /\ likert.result # NoneR) =>
             likert.result[1] \in Range(likert.response_keys)
       /\ (likert.num_options = 10 /\ ~likert.args.option_texts.given) =>
             Range(likert.response_keys) = DisplayedOptionTexts

\* C14 witness: with ten options and the default keys and texts, key "0" was
\* pressed after an unlisted key and came back as the response.
C14_Witness ==
    /\ likert.called /\ likert.num_options = 10
    /\ ~likert.args.response_keys.given /\ ~likert.args.option_texts.given
    /\ ~likert.wait_trigger
    /\ pc = "done" /\ ignored
    /\ likert.result[1] = "0"

\* C15: for every valid likert_scale call, with N options, pos_x holds
\* exactly N positions, strictly increasing, evenly spaced, symmetric about 0
\* and within [-100, 100] hundredths; the construction raises nothing, and
\* option i and label i stand at pos_x[i].
C15_LikertPositions ==
    (likert.called /\ ~InvalidLikert) =>
       /\ likert.error = ""
       /\ Len(likert.pos_x) = likert.num_options
       /\ \A i \in 1..(likert.num_options - 1) :
             /\ likert.pos_x[i] < likert.pos_x[i + 1]
             /\ likert.pos_x[i + 1] - likert.pos_x[i]
                   = likert.pos_x[2] - likert.pos_x[1]
       /\ \A i \in 1..likert.num_options :
             /\ likert.pos_x[i] = 0 - likert.pos_x[likert.num_options + 1 - i]
             /\ likert.pos_x[i] >= 0 - 100 /\ likert.pos_x[i] <= 100
             /\ stim["option" \o Str(i)].pos = likert.pos_x[i]
             /\ likert.option_labels.given =>
                   stim["label" \o Str(i)].pos = likert.pos_x[i]
       /\ Len(likert.stimuli) = 1 + likert.num_options
             + (IF likert.option_labels.given THEN likert.num_options ELSE 0)

\* C15 witness: ten options with side labels were laid out from -90 to 90
\* and drawn, twenty-one stimuli in one frame.
C15_Witness ==
    /\ likert.called /\ likert.num_options = 10
    /\ likert.args.side_labels.given /\ likert.error = ""
    /\ likert.pos_x[1] = 0 - 90 /\ likert.pos_x[10] = 90
    /\ Len(frames) = 1 /\ Len(frames[1]) = 21

\* The pages the caller of show_instructions passed: a string is one page.
PagesGiven == IF instr.arg.kind = "str" THEN <<instr.arg.v[1]>> ELSE instr.arg.v

\* draw_stimuli_for_response has come back for the latest page.
PageEnded == instr.called /\ pc \in {"instr_page", "done"} /\ instr.i >= 1

\* The latest page saw the continuation key.
OnContinuationKey == firstQual # NoneR /\ firstQual[1] = instr.key_to_continue

\* The time box of the latest page, given as duration, has run out: the
\* seconds in time-based mode, the trigger count in trigger-based mode.
TimeBoxExpired ==
    /\ instr.duration # NoneV
    /\ IF instr.wait_trigger
       THEN IsFinite(instr.duration) /\ trigSeen = instr.duration.v
       ELSE IsFinite(instr.duration) /\ clock >= instr.duration.v

\* The latest page ran in trigger-based mode without an integer duration and
\* has had the one pulse draw_stimuli_for_response then waits for.
OnePulseFallback ==
    instr.wait_trigger /\ ~IsInt(instr.duration) /\ trigSeen = 1

\* One Present+Collect cycle per page, in page order: page n is on frame n,
\* no frame is flipped past the pages given, and the call has returned only
\* after the last page.
PageCycles ==
    instr.called =>
       /\ Len(frames) <= Len(PagesGiven)
       /\ \A n \in 1..Len(frames) :
             /\ frames[n][1].id = "page" \o Str(n)
             /\ stim[frames[n][1].id].text = PagesGiven[n]
       /\ pc \in {"instr_page", "done"} => Len(frames) = instr.i
       /\ pc = "done" => Len(frames) = Len(PagesGiven)

\* C16 as stated: show_instructions with k pages runs k Present+Collect
\* cycles in page order; a page ends only on the continuation key, or on
\* expiry of the time box when a duration is given; and with no duration in
\* time-based mode a page never ends without the continuation key.
C16_PagesAsStated ==
    /\ PageCycles
    /\ PageEnded => (OnContinuationKey \/ TimeBoxExpired)
    /\ (PageEnded /\ ~instr.wait_trigger /\ instr.duration = NoneV)
          => OnContinuationKey

\* C16, amended: as stated, and in trigger-based mode a page whose duration
\* is omitted or not an integer ends after one trigger pulse.
C16_PagesWithFallback ==
    /\ PageCycles
    /\ PageEnded => (OnContinuationKey \/ TimeBoxExpired \/ OnePulseFallback)
    /\ (PageEnded /\ ~instr.wait_trigger /\ ~IsFinite(instr.duration))
          => (OnContinuationKey /\ resp.result = firstQual)
    /\ (PageEnded /\ instr.wait_trigger)
          => (TimeBoxExpired \/ OnePulseFallback)

\* C16 witness: two pages were shown in trigger-based mode with no duration;
\* the call is over, the second page ended on one pulse with no key pressed.
C16_Witness ==
    /\ instr.called /\ pc = "done" /\ instr.i = 2
    /\ instr.wait_trigger /\ instr.duration = NoneV
    /\ Len(frames) = 2
    /\ firstQual = NoneR /\ trigSeen = 1 /\ warnings = 2

\* The dictionary {k0: 0, k1: 1, ...} of a list of keys [k0, k1, ...].
AsDict(keys) == DictForm(keys, [n \in 1..Len(keys) |-> n - 1])

\* C17: a select_from_stimuli call given a list of distinct keys stands, once
\* the key map is built, where the call given the dictionary {k0: 0, k1: 1,
\* ...} stands: the same key map, the same keys handed to the collector, the
\* same frames of the three calls; and the selection it returns is the one
\* the dictionary gives the pressed key.  No later step reads the form the
\* keys were passed in.
C17_ListIsDict ==
    (InSelect /\ sel.form.kind = "list") =>
       /\ sel.response_keys = ToKeyMap(AsDict(sel.form.keys))
       /\ resp.response_keys = DOMAIN ToKeyMap(AsDict(sel.form.keys))
       /\ (pc = "dur_draw" /\ frames = <<>>) =>
             /\ sel = [SelCall(Options, AsDict(sel.form.keys), sel.max_wait,
                               sel.resp_wait_trigger) EXCEPT !.form = sel.form]
             /\ resp = RespCall(Options, DOMAIN ToKeyMap(AsDict(sel.form.keys)),
                                sel.max_wait, sel.resp_wait_trigger, "sel_branch")
             /\ dur = DurCall(Options, NoneV, FALSE, "resp_gather")
       /\ (pc = "done" /\ ~sel.result.none) =>
             sel.result = Dict(ToKeyMap(AsDict(sel.form.keys))[resp.result[1]],
                               resp.result[2])

\* C17 witness: with the list [j, f], key f selected option 1.
C17_Witness ==
    /\ InSelect /\ pc = "done"
    /\ sel.form = ListForm(<<"j", "f">>)
    /\ resp.result[1] = "f"
    /\ sel.result.selection = 1 /\ ~sel.result.none

\* C18: when show_form_dialog returns, the dictionary the caller passed holds
\* the input that was accepted, after any number of rejected attempts and
\* for both settings of reset_after_error.
C18_ItemsHoldAccepted ==
    (dlg.called /\ pc = "done") => dlg.caller = dlg.entered

\* C19: for a DumbTextInput built with an integer max_length >= 0 the text
\* is never longer than max_length, whatever keys update is given; and an
\* update that finds the text at max_length changes it only if the key is
\* backspace.
C19_LengthWithinMax ==
    /\ []((text.created /\ IsInt(text.max_length))
             => Len(text.text) <= text.max_length.v)
    /\ [][(/\ text.created /\ IsInt(text.max_length)
           /\ Len(text.text) = text.max_length.v
           /\ text'.text # text.text)
          => (/\ text'.last_key = "backspace"
              /\ text'.text = SubSeq(text.text, 1, Len(text.text) - 1))]_vars

\* C19 witness: a text input of max_length 2 holds two characters and has
\* just refused a third.
C19_Witness ==
    /\ text.created /\ text.max_length = IntV(2)
    /\ Len(text.text) = 2
    /\ text.last_key = "a" /\ ~text.text_changed

\* The options as they looked when select_from_stimuli was called.
OptionsAtEntry ==
    [n \in 1..Len(sel.entry_stimuli) |->
        [id |-> sel.entry_stimuli[n],
         pos |-> sel.entry_stim[sel.entry_stimuli[n]].pos,
         opacity |-> sel.entry_stim[sel.entry_stimuli[n]].opacity]]

\* C20: when select_from_stimuli has returned a selection it has flipped
\* exactly two frames: the options, then the options with the selected one
\* marked (the highlight on top at the selected stimulus's position, or the
\* selected stimulus at reduced opacity); the post-selection wait (seconds
\* or pulses) has run its course, and no result exists before the return.
C20_TwoFramesOnResponse ==
    /\ (InSelect /\ ~sel.result.none) => pc = "done"
    /\ (InSelect /\ pc = "done" /\ ~sel.result.none) =>
          /\ Len(frames) = 2
          /\ frames[1] = OptionsAtEntry
          /\ sel.highlight = NoStim =>
                frames[2] = [OptionsAtEntry EXCEPT
                                ![PyItem(Len(OptionsAtEntry),
                                         sel.result.selection)].opacity =
                                    @ - SELECTED_STIM_OPACITY_CHANGE]
          /\ sel.highlight # NoStim =>
                frames[2] = Append(OptionsAtEntry,
                               [id |-> sel.highlight,
                                pos |-> OptionsAtEntry[
                                            PyItem(Len(OptionsAtEntry),
                                                   sel.result.selection)].pos,
                                opacity |-> sel.entry_stim[sel.highlight].opacity])
          /\ dur.duration = sel.post_selection_time
          /\ dur.wait_trigger = sel.post_select_wait_trigger
          /\ Held(dur)

\* C20 witness: option B was selected with a highlight; the second frame
\* shows the highlight at B's position and was held for two pulses.
C20_Witness ==
    /\ InSelect /\ pc = "done" /\ ~sel.result.none
    /\ sel.result.selection = 1 /\ sel.highlight = "H"
    /\ sel.post_select_wait_trigger /\ sel.post_selection_time = IntV(2)
    /\ Len(frames) = 2 /\ Len(frames[2]) = 3
    /\ frames[2][3].id = "H" /\ frames[2][3].pos = 50

\* C21: an empty list from the event source is taken like a timeout: the
\* call raises no error, a time-based call that was handed one has returned
\* None, and a trigger-based call that was handed nothing else but triggers
\* returns None.
C21_EmptyResultIsNoResponse ==
    resp.empty_seen =>
       /\ error = ""
       /\ ~resp.wait_trigger => (pc = resp.ret /\ resp.result = NoneR)
       /\ (resp.wait_trigger /\ pc = resp.ret /\ respSeen = 0)
             => resp.result = NoneR

\* The call is one of show_fixation, show_two_fixations, show_blank_screen.
InFixation == dur.ret = "fix_done"

\* C22: a fixation or blank-screen phase flips exactly one frame, the
\* stimuli it constructed; when it has returned, the wait has run its course
\* (the seconds, or the pulse loop), nothing was collected and nothing is
\* returned; and a poll of the pulse loop that brings no trigger, whatever
\* keys it brings, leaves the wait where it was.
C22_PresentOnly ==
    /\ []((InFixation /\ pc \notin {"idle", "dur_draw"}) =>
             /\ Len(frames) = 1
             /\ \A n \in 1..Len(frames[1]) : frames[1][n].id = dur.stimuli[n]
             /\ Len(frames[1]) = Len(dur.stimuli)
             /\ resp.result = NoneR /\ sel.result = NoneD
             /\ firstQual = NoneR /\ respSeen = 0)
    /\ []((InFixation /\ pc \in {"fix_done", "done"}) => Held(dur))
    /\ [][(InFixation /\ pc = "dur_trigger" /\ trigSeen' = trigSeen)
            => (pc' = pc /\ dur' = dur)]_vars

\* C22 witness: two fixations were shown for two pulses; a response key was
\* pressed during the wait and the phase ended on the second pulse.
C22_Witness ==
    /\ InFixation /\ pc = "done"
    /\ dur.wait_trigger /\ dur.duration = IntV(2)
    /\ ignored /\ trigSeen = 2
    /\ Len(frames) = 1 /\ Len(frames[1]) = 2

\* C23: for a DumbTextInput built with a valid_chars list every character
\* of the text is in the list, whatever keys update is given; and an update
\* with a key whose character is not in the list leaves the text as it was
\* and does not redraw.
C23_OnlyValidChars ==
    /\ []((text.created /\ text.valid_chars.given)
             => \A n \in 1..Len(text.text) :
                   text.text[n] \in Range(text.valid_chars.v))
    /\ [][(/\ text.created /\ text.valid_chars.given
           /\ text'.last_char # ""
           /\ text'.last_char \notin Range(text.valid_chars.v))
          => (text'.text = text.text /\ ~text'.redrawn)]_vars

\* C23 witness: a text input that takes a, 1 and _ holds text, is not full,
\* and has just refused a capital A.
C23_Witness ==
    /\ text.created /\ text.valid_chars.given
    /\ Len(text.text) >= 1
    /\ ~AtMaxLength(text.text, text.max_length)
    /\ text.last_key = "a" /\ text.last_char = "A"
    /\ ~text.redrawn /\ ~text.text_changed

\* C24: a dictionary returned by select_from_stimuli holds the zero-based
\* index of one of the stimuli the call was given:
\* 0 <= selection < number of stimuli.
C24_SelectionInRange ==
    (InSelect /\ ~sel.result.none) =>
       /\ 0 <= sel.result.selection
       /\ sel.result.selection < Len(sel.entry_stimuli)

\* C25: when a call of select_from_stimuli has ended, with a return or with
\* an error, every stimulus has the opacity it had at entry.
C25_OpacityRestoredOnEveryExit ==
    (InSelect /\ pc \in {"done", "raised"}) =>
       \A s \in StimIds : stim[s].opacity = sel.entry_stim[s].opacity
====
